---- MODULE Spec2Model ----
(***************************************************************************)
(* A model of audit_codebase.py: the InsightAtlasAuditor, its eleven audit *)
(* groups, the result list they append to, and print_results.              *)
(*                                                                         *)
(* Text is modelled as a sequence of tokens.  A token is a piece of text    *)
(* that no marker of the audit splits: "x in content" is "x occurs as a     *)
(* contiguous run of tokens of content", string concatenation is \o.        *)
(* Category names, which are only compared for equality, are TLA+ strings.  *)
(***************************************************************************)
EXTENDS Integers, Sequences, FiniteSets, TLC

VARIABLES
    fs,        \* the audited file system (never written by the auditor)
    results,   \* self.results
    stdout,    \* the lines printed so far
    pc,        \* where the auditor is: "idle", inside audit_all, or "aborted"
    ret,       \* the value returned by the last completed call
    log,       \* the operations executed so far and where their output starts
    calls      \* the number of calls made on the auditor so far

vars == <<fs, results, stdout, pc, ret, log, calls>>

(***************************************************************************)
(* Bounds of the model.                                                    *)
(***************************************************************************)
\* audit_all is invoked at most MaxRuns times on one auditor
MaxRuns == 2
\* an audit group is called directly at most MaxGroupCalls times
MaxGroupCalls == 2
\* add_result and print_results are called directly at most MaxReportCalls times
MaxReportCalls == 6
\* a file system differs from the complete project in at most MaxDeviations places
MaxDeviations == 1
\* groups, add_result and print_results are called directly, mixed, at most MaxCalls times
MaxCalls == 2

(***************************************************************************)
(* Strings                                                                 *)
(***************************************************************************)
\* Python's "s in t" on strings
Contains(t, s) ==
    \E i \in 0..(Len(t) - Len(s)) : SubSeq(t, i + 1, i + Len(s)) = s

\* str.lower(), token by token
LowerTok(t) ==
    CASE t = "Word" -> "word"
      [] t = "Count" -> "count"
      [] t = "Heading" -> "heading"
      [] t = "Structure" -> "structure"
      [] t = "Properly" -> "properly"
      [] t = "Closed" -> "closed"
      [] t = "Progress" -> "progress"
      [] t = "View" -> "view"
      [] OTHER -> t

Lower(s) == [i \in 1..Len(s) |-> LowerTok(s[i])]

\* the tokens made of word characters [A-Za-z0-9_] only, as far as \b can tell
NonWordToks == {" ", "\n", "(", ")", "!", ":", "\"", "\\", "//", "/", ".", "{", "}", "="}

IsWordTok(t) == t \notin NonWordToks

(***************************************************************************)
(* Regular expressions: a compiled pattern is a sequence of atoms.         *)
(***************************************************************************)
Lit(t) == [k |-> "lit", s |-> {t}]
Alt(S) == [k |-> "lit", s |-> S]
WordBoundary == [k |-> "wb", s |-> {}]
Star(S) == [k |-> "star", s |-> S]
PlusNot(S) == [k |-> "plusnot", s |-> S]

\* \b between text[i-1] and text[i]
IsBoundary(text, i) ==
    LET before == i > 1 /\ i - 1 <= Len(text) /\ IsWordTok(text[i - 1])
        after == i >= 1 /\ i <= Len(text) /\ IsWordTok(text[i])
    IN  before # after

RECURSIVE MatchHere(_, _, _, _)
MatchHere(re, j, text, i) ==
    IF j > Len(re) THEN TRUE
    ELSE LET a == re[j]
             left == Len(text) - i + 1
         IN  CASE a.k = "lit" ->
                    /\ i <= Len(text)
                    /\ text[i] \in a.s
                    /\ MatchHere(re, j + 1, text, i + 1)
               [] a.k = "wb" ->
                    /\ IsBoundary(text, i)
                    /\ MatchHere(re, j + 1, text, i)
               [] a.k = "star" ->
                    \E n \in 0..left :
                        /\ \A m \in 0..(n - 1) : text[i + m] \in a.s
                        /\ MatchHere(re, j + 1, text, i + n)
               [] a.k = "plusnot" ->
                    \E n \in 1..left :
                        /\ \A m \in 0..(n - 1) : text[i + m] \notin a.s
                        /\ MatchHere(re, j + 1, text, i + n)

\* re.search(pattern, text) is not None
re_search(re, text) == \E i \in 1..(Len(text) + 1) : MatchHere(re, 1, text, i)

\* re.escape(marker): every token of the marker is matched literally
re_escape(marker) == [i \in 1..Len(marker) |-> Lit(marker[i])]

(***************************************************************************)
(* Paths.  A path is a sequence of components, a component a sequence of   *)
(* tokens; str(path) joins the components with "/".                        *)
(***************************************************************************)
PathDiv(path, rel) == path \o rel

RECURSIVE PathStr(_)
PathStr(path) ==
    IF path = <<>> THEN <<>>
    ELSE IF Len(path) = 1 THEN path[1]
    ELSE path[1] \o <<"/">> \o PathStr(Tail(path))

PathName(path) == path[Len(path)]

IsUnder(path, root) ==
    /\ Len(path) > Len(root)
    /\ SubSeq(path, 1, Len(root)) = root

\* fnmatch of a name against a pattern whose only wildcard is the token "*"
RECURSIVE Fnmatch(_, _)
Fnmatch(name, pat) ==
    IF pat = <<>> THEN name = <<>>
    ELSE IF Head(pat) = "*"
         THEN \E n \in 0..Len(name) : Fnmatch(SubSeq(name, n + 1, Len(name)), Tail(pat))
         ELSE /\ name # <<>>
              /\ Head(name) = Head(pat)
              /\ Fnmatch(Tail(name), Tail(pat))

(***************************************************************************)
(* InsightAtlasAuditor.__init__                                            *)
(***************************************************************************)
project_path == << <<"/Volumes/2 TB/insight-atlas-ios">> >>

data_manager_path ==
    PathDiv(project_path, << <<"InsightAtlas">>, <<"Services">>, <<"DataManager", ".swift">> >>)
style_path ==
    PathDiv(project_path, << <<"InsightAtlas">>, <<"Services">>, <<"InsightAtlasStyle", ".swift">> >>)
guide_view_path ==
    PathDiv(project_path, << <<"InsightAtlas">>, <<"Views">>, <<"GuideView", ".swift">> >>)
quality_audit_path ==
    PathDiv(project_path, << <<"InsightAtlas">>, <<"Services">>, <<"QualityAuditService", ".swift">> >>)
regenerate_view_path ==
    PathDiv(project_path, << <<"InsightAtlas">>, <<"Views">>, <<"RegenerateView", ".swift">> >>)
app_path ==
    PathDiv(project_path, << <<"InsightAtlas">>, <<"InsightAtlasApp", ".swift">> >>)
info_plist_path ==
    PathDiv(project_path, << <<"InsightAtlas">>, <<"Info", ".plist">> >>)

source_roots ==
    << PathDiv(project_path, << <<"InsightAtlas">> >>),
       PathDiv(project_path, << <<"InsightAtlasTests">> >>) >>

\* self.results = []
InitialResults == <<>>

(***************************************************************************)
(* The file system: a sequence of entries in the order in which a          *)
(* directory walk meets them.                                              *)
(*   kind  "file" or "dir"                                                 *)
(*   state "ok", "denied" (no permission) or "undecodable" (not UTF-8)     *)
(***************************************************************************)
Entry(path, kind, state, text) ==
    [path |-> path, kind |-> kind, state |-> state, text |-> text]

EntriesAt(f, path) == SelectSeq(f, LAMBDA e : e.path = path)

\* Path.exists()
path_exists(f, path) == EntriesAt(f, path) # <<>>

\* a directory above the path that cannot be entered
Blocked(f, path) ==
    \E i \in 1..Len(f) :
        /\ f[i].kind = "dir"
        /\ f[i].state = "denied"
        /\ IsUnder(path, f[i].path)

\* Path.read_text(encoding="utf-8"): the text, or an exception
path_read_text(f, path) ==
    LET es == EntriesAt(f, path)
    IN  IF es = <<>> THEN [raised |-> TRUE, value |-> <<>>]
        ELSE IF es[1].kind # "file" \/ es[1].state # "ok" \/ Blocked(f, path)
             THEN [raised |-> TRUE, value |-> <<>>]
             ELSE [raised |-> FALSE, value |-> es[1].text]

\* root.rglob(pattern): the matching paths below root, in walk order; a
\* directory that cannot be listed yields nothing
path_rglob(f, root, pat) ==
    LET hits == SelectSeq(f, LAMBDA e :
                    /\ IsUnder(e.path, root)
                    /\ ~Blocked(f, e.path)
                    /\ Fnmatch(PathName(e.path), pat))
        rootDenied == \E i \in 1..Len(f) : f[i].path = root /\ f[i].state = "denied"
    IN  IF rootDenied THEN <<>> ELSE [i \in 1..Len(hits) |-> hits[i].path]

(***************************************************************************)
(* read_file and add_result                                                *)
(***************************************************************************)
\* a read_file that lets the exception of read_text escape
read_file_NoExcept(f, path) == path_read_text(f, path)

\* read_file: the text, or "" on any exception
read_file(f, path) ==
    LET r == path_read_text(f, path)
    IN  IF r.raised THEN [raised |-> FALSE, value |-> <<>>] ELSE r

AuditResult(category, check, passed, message, severity) ==
    [category |-> category, check |-> check, passed |-> passed,
     message |-> message, severity |-> severity]

\* severity: str = "error"
DefaultSeverity == "error"

\* an add_result that puts the new record in front of the list
add_result_Insert(res, category, check, passed, message, severity) ==
    <<AuditResult(category, check, passed, message, severity)>> \o res

\* an add_result that keeps one record per (category, check) pair
add_result_Dedupe(res, category, check, passed, message, severity) ==
    IF \E i \in 1..Len(res) : res[i].category = category /\ res[i].check = check
    THEN res
    ELSE Append(res, AuditResult(category, check, passed, message, severity))

\* add_result
add_result(res, category, check, passed, message, severity) ==
    Append(res, AuditResult(category, check, passed, message, severity))

\* a run of add_result calls, one per row, in order
RECURSIVE AddAll(_, _)
AddAll(res, rows) ==
    IF rows = <<>> THEN res
    ELSE AddAll(add_result(res, Head(rows).category, Head(rows).check, Head(rows).passed,
                           Head(rows).message, Head(rows).severity),
                Tail(rows))

\* the arguments of one add_result call
Row(category, check, passed, message, severity) ==
    AuditResult(category, check, passed, message, severity)

\* the outcome of an audit group: the new result list, or an exception
Done(res) == [raised |-> FALSE, results |-> res]
Raised(res) == [raised |-> TRUE, results |-> res]

(***************************************************************************)
(* audit_html_export                                                       *)
(***************************************************************************)
required_css_classes == <<
    [m |-> <<"quick-glance">>, desc |-> "Quick Glance block styling"],
    [m |-> <<"insight-note">>, desc |-> "Insight Note block styling"],
    [m |-> <<"action-box">>, desc |-> "Action Box block styling"],
    [m |-> <<"visual-flowchart">>, desc |-> "Visual Flowchart block styling"],
    [m |-> <<"visual-table">>, desc |-> "Visual Table block styling"],
    [m |-> <<"exercise">>, desc |-> "Exercise block styling"],
    [m |-> <<"foundational-narrative">>, desc |-> "Foundational Narrative styling"],
    [m |-> <<"structure-map">>, desc |-> "Structure Map styling"],
    [m |-> <<"takeaways">>, desc |-> "Takeaways block styling"],
    [m |-> <<"reading-time-badge">>, desc |-> "Reading time badge styling"],
    [m |-> <<"flow-step">>, desc |-> "Flowchart step styling"],
    [m |-> <<"flow-arrow">>, desc |-> "Flowchart arrow styling"],
    [m |-> <<"styled-table">>, desc |-> "Table styling"] >>

required_functions == <<
    [m |-> <<"renderSpecialBlock">>, desc |-> "Special block renderer"],
    [m |-> <<"renderFlowchartContent">>, desc |-> "Flowchart content renderer"],
    [m |-> <<"renderBlockContent">>, desc |-> "Block content renderer"],
    [m |-> <<"renderStructureMapContent">>, desc |-> "Structure map renderer"],
    [m |-> <<"renderBlockTableContent">>, desc |-> "Block table renderer"],
    [m |-> <<"convertInlineMarkdown">>, desc |-> "Inline markdown converter"],
    [m |-> <<"calculateReadingTime">>, desc |-> "Dynamic reading time calculator"] >>

brand_colors == <<
    [m |-> <<"--gold: #", "CBA135">>, desc |-> "Gold primary color"],
    [m |-> <<"--burgundy: #", "582534">>, desc |-> "Burgundy color"],
    [m |-> <<"--coral: #", "E76F51">>, desc |-> "Coral accent color"] >>

ListTypeUl == <<"listType = \"", "ul", "\"">>
ListTypeOl == <<"listType = \"", "ol", "\"">>
HeaderClass == <<".", "header">>
HeaderBrandClass == <<".", "header", " ", ".", "brand">>

HtmlRows(content) ==
    [i \in 1..Len(required_css_classes) |->
        LET c == required_css_classes[i]
            has_class == Contains(content, <<".">> \o c.m)
        IN  Row("HTML Export", <<"Has ", c.desc>>, has_class,
                <<"CSS class ", ".">> \o c.m \o <<" ", IF has_class THEN "found" ELSE "MISSING">>,
                DefaultSeverity)]
    \o
    [i \in 1..Len(required_functions) |->
        LET c == required_functions[i]
            has_func == \/ Contains(content, <<"func ">> \o c.m)
                        \/ Contains(content, <<"private ", "func ">> \o c.m)
        IN  Row("HTML Export", <<"Has ", c.desc>>, has_func,
                <<"Function ">> \o c.m \o <<" ", IF has_func THEN "found" ELSE "MISSING">>,
                DefaultSeverity)]
    \o
    << LET has_list_type == Contains(content, ListTypeUl) /\ Contains(content, ListTypeOl)
       IN  Row("HTML Export", <<"Proper list type tracking (ul/ol)">>, has_list_type,
               <<"List type tracking for proper tag closure">>, DefaultSeverity) >>
    \o
    [i \in 1..Len(brand_colors) |->
        LET c == brand_colors[i]
            has_color == Contains(content, c.m)
        IN  Row("HTML Export", <<"Has ", c.desc>>, has_color,
                <<"Brand color ">> \o c.m \o <<" ", IF has_color THEN "defined" ELSE "MISSING">>,
                DefaultSeverity)]
    \o
    << LET has_header == Contains(content, HeaderClass) /\ Contains(content, HeaderBrandClass)
       IN  Row("HTML Export", <<"Has proper header structure">>, has_header,
               <<"Header with branding elements">>, DefaultSeverity) >>

audit_html_export(res, f) ==
    LET content == read_file(f, data_manager_path)
    IN  IF content.raised THEN Raised(res)
        ELSE Done(AddAll(res, HtmlRows(content.value)))

(***************************************************************************)
(* audit_pdf_export                                                        *)
(***************************************************************************)
special_blocks == <<
    [m |-> <<"[", "QUICK_GLANCE", "]">>, desc |-> "Quick Glance block"],
    [m |-> <<"[", "INSIGHT_NOTE", "]">>, desc |-> "Insight Note block"],
    [m |-> <<"[", "ACTION_BOX">>, desc |-> "Action Box block"],
    [m |-> <<"[", "FOUNDATIONAL_NARRATIVE", "]">>, desc |-> "Foundational Narrative block"],
    [m |-> <<"[", "TAKEAWAYS", "]">>, desc |-> "Takeaways block"],
    [m |-> <<"[", "EXERCISE_">>, desc |-> "Exercise block"],
    [m |-> <<"[", "QUOTE", "]">>, desc |-> "Quote block"] >>

pdf_colors == << <<"UIColor.iaGold">>, <<"UIColor.iaHeading">>, <<"UIColor.iaCoral">>,
                 <<"UIColor.iaBurgundy">> >>

\* f'line.hasPrefix\\("{re.escape(marker)}"\\)'
HasPrefixPattern(marker) ==
    <<Lit("line.hasPrefix"), Lit("("), Lit("\"")>> \o re_escape(marker)
        \o <<Lit("\""), Lit(")")>>

PdfRows(content) ==
    << LET has_pdf_gen == Contains(content, <<"func ", "generatePDF">>)
       IN  Row("PDF Export", <<"Has PDF generation function">>, has_pdf_gen,
               <<"generatePDF function">>, DefaultSeverity) >>
    \o
    [i \in 1..Len(special_blocks) |->
        LET c == special_blocks[i]
            has_handling == re_search(HasPrefixPattern(c.m), content)
        IN  Row("PDF Export", <<"Handles ", c.desc>>, has_handling,
                <<"PDF rendering for ">> \o c.m, DefaultSeverity)]
    \o
    << LET has_reading_time == /\ Contains(content, <<"calculateReadingTime">>)
                               /\ Contains(content, <<"QUICK_GLANCE">>)
       IN  Row("PDF Export", <<"Has dynamic reading time">>, has_reading_time,
               <<"Dynamic reading time in Quick Glance">>, DefaultSeverity) >>
    \o
    [i \in 1..Len(pdf_colors) |->
        LET color == pdf_colors[i]
            has_color == Contains(content, color)
        IN  Row("PDF Export", <<"Uses ">> \o color, has_color,
                <<"Brand color ">> \o color \o <<" in PDF">>, DefaultSeverity)]

audit_pdf_export(res, f) ==
    LET content == read_file(f, data_manager_path)
    IN  IF content.raised THEN Raised(res)
        ELSE Done(AddAll(res, PdfRows(content.value)))

(***************************************************************************)
(* audit_docx_export                                                       *)
(***************************************************************************)
docx_styles == <<
    [m |-> <<"InsightNote">>, desc |-> "Insight Note style"],
    [m |-> <<"ActionBox">>, desc |-> "Action Box style"],
    [m |-> <<"QuickGlance">>, desc |-> "Quick Glance style"],
    [m |-> <<"Heading1">>, desc |-> "Heading 1 style"],
    [m |-> <<"Heading2">>, desc |-> "Heading 2 style"] >>

DocxRows(content) ==
    << LET has_docx == Contains(content, <<"func ", "generateDOCX">>)
       IN  Row("DOCX Export", <<"Has DOCX generation function">>, has_docx,
               <<"generateDOCX function">>, DefaultSeverity) >>
    \o
    [i \in 1..Len(docx_styles) |->
        LET c == docx_styles[i]
            has_style == Contains(content, <<"styleId=\"">> \o c.m \o <<"\"">>)
        IN  Row("DOCX Export", <<"Has ", c.desc>>, has_style,
                <<"DOCX style ">> \o c.m, DefaultSeverity)]
    \o
    << LET has_gold == \/ Contains(content, <<"w:color w:val=\"", "CBA135", "\"">>)
                       \/ Contains(content, <<"w:color=\"", "CBA135", "\"">>)
       IN  Row("DOCX Export", <<"Has gold brand color">>, has_gold,
               <<"Gold color #CBA135">>, DefaultSeverity),
       LET has_burgundy == \/ Contains(content, <<"w:color w:val=\"", "582534", "\"">>)
                           \/ Contains(content, <<"w:color=\"", "582534", "\"">>)
       IN  Row("DOCX Export", <<"Has burgundy brand color">>, has_burgundy,
               <<"Burgundy color #582534">>, DefaultSeverity) >>

audit_docx_export(res, f) ==
    LET content == read_file(f, data_manager_path)
    IN  IF content.raised THEN Raised(res)
        ELSE Done(AddAll(res, DocxRows(content.value)))

(***************************************************************************)
(* audit_guide_view                                                        *)
(***************************************************************************)
block_views == <<
    [m |-> <<"QuickGlanceBlockView">>, desc |-> "Quick Glance view"],
    [m |-> <<"InsightNoteBlockView">>, desc |-> "Insight Note view"],
    [m |-> <<"ActionBoxBlockView">>, desc |-> "Action Box view"],
    [m |-> <<"FlowchartBlockView">>, desc |-> "Flowchart view"],
    [m |-> <<"TableBlockView">>, desc |-> "Table view"],
    [m |-> <<"TakeawaysBlockView">>, desc |-> "Takeaways view"] >>

GuideRows(content) ==
    [i \in 1..Len(block_views) |->
        LET c == block_views[i]
            has_view == Contains(content, c.m)
        IN  Row("GuideView", <<"Has ", c.desc>>, has_view,
                <<"Block view component ">> \o c.m, DefaultSeverity)]
    \o
    << Row("GuideView", <<"Has quality score display">>,
           Contains(content, <<"qualityScore">>),
           <<"Quality score state variable">>, DefaultSeverity),
       Row("GuideView", <<"Has regenerate confirmation">>,
           Contains(content, <<"showingRegenerateConfirmation">>),
           <<"Regenerate confirmation dialog">>, DefaultSeverity),
       Row("GuideView", <<"Has RegenerateView integration">>,
           Contains(content, <<"RegenerateView">>),
           <<"RegenerateView sheet/cover">>, DefaultSeverity) >>

audit_guide_view(res, f) ==
    LET content == read_file(f, guide_view_path)
    IN  IF content.raised THEN Raised(res)
        ELSE Done(AddAll(res, GuideRows(content.value)))

(***************************************************************************)
(* audit_quality_service                                                   *)
(***************************************************************************)
required_sections == <<
    <<"[", "QUICK_GLANCE", "]">>,
    <<"[", "INSIGHT_NOTE", "]">>,
    <<"[", "ACTION_BOX">>,
    <<"[", "FOUNDATIONAL_NARRATIVE", "]">>,
    <<"[", "TAKEAWAYS", "]">>,
    <<"[", "EXERCISE_">>,
    <<"[", "VISUAL_FLOWCHART">>,
    <<"[", "VISUAL_TABLE">>,
    <<"[", "STRUCTURE_MAP", "]">> >>

quality_checks == <<
    [m |-> <<"word", " ", "count">>, desc |-> "Word count validation"],
    [m |-> <<"heading", " ", "structure">>, desc |-> "Heading structure check"],
    [m |-> <<"properly", " ", "closed">>, desc |-> "Block closure validation"] >>

QualityRows(content) ==
    [i \in 1..Len(required_sections) |->
        LET section == required_sections[i]
            has_section == Contains(content, section)
        IN  Row("Quality Service", <<"Checks for ">> \o section, has_section,
                <<"Required section check for ">> \o section, DefaultSeverity)]
    \o
    [i \in 1..Len(quality_checks) |->
        LET c == quality_checks[i]
            has_check == Contains(Lower(content), Lower(c.m))
        IN  Row("Quality Service", <<"Has ", c.desc>>, has_check,
                <<"Quality check: ">> \o c.m, DefaultSeverity)]
    \o
    << LET has_threshold == \/ Contains(content, <<"95">>)
                            \/ Contains(content, <<"passingThreshold">>)
       IN  Row("Quality Service", <<"Has 95% passing threshold">>, has_threshold,
               <<"95% quality threshold defined">>, DefaultSeverity) >>

\* an audit_quality_service whose "File exists" branch does not return
audit_quality_service_NoReturn(res, f) ==
    LET content == read_file(f, quality_audit_path)
        first == IF content.value = <<>>
                 THEN add_result(res, "Quality Service", <<"File exists">>, FALSE,
                                 <<"QualityAuditService", ".swift", " not found">>,
                                 DefaultSeverity)
                 ELSE res
    IN  IF content.raised THEN Raised(res)
        ELSE Done(AddAll(first, QualityRows(content.value)))

audit_quality_service(res, f) ==
    LET content == read_file(f, quality_audit_path)
    IN  IF content.raised THEN Raised(res)
        ELSE IF content.value = <<>>
             THEN Done(add_result(res, "Quality Service", <<"File exists">>, FALSE,
                                  <<"QualityAuditService", ".swift", " not found">>,
                                  DefaultSeverity))
             ELSE Done(AddAll(res, QualityRows(content.value)))

(***************************************************************************)
(* audit_regenerate_view                                                   *)
(***************************************************************************)
RegenerateRows(content) ==
    << LET has_iteration == \/ Contains(content, <<"iterationCount">>)
                            \/ Contains(content, <<"maxIterations">>)
       IN  Row("Regenerate View", <<"Has iteration support">>, has_iteration,
               <<"Iteration counting for quality improvement">>, DefaultSeverity),
       LET has_progress == \/ Contains(content, <<"Progress", "View">>)
                           \/ Contains(Lower(content), <<"progress">>)
       IN  Row("Regenerate View", <<"Has progress display">>, has_progress,
               <<"Visual progress indicator">>, DefaultSeverity),
       LET has_score == \/ Contains(content, <<"qualityScore">>)
                        \/ Contains(content, <<"currentScore">>)
       IN  Row("Regenerate View", <<"Has quality score display">>, has_score,
               <<"Quality score visualization">>, DefaultSeverity),
       LET has_audit == \/ Contains(content, <<"QualityAuditService">>)
                        \/ Contains(content, <<"auditReport">>)
       IN  Row("Regenerate View", <<"Has audit integration">>, has_audit,
               <<"QualityAuditService integration">>, DefaultSeverity) >>

audit_regenerate_view(res, f) ==
    LET content == read_file(f, regenerate_view_path)
    IN  IF content.raised THEN Raised(res)
        ELSE IF content.value = <<>>
             THEN Done(add_result(res, "Regenerate View", <<"File exists">>, FALSE,
                                  <<"RegenerateView", ".swift", " not found">>,
                                  DefaultSeverity))
             ELSE Done(AddAll(res, RegenerateRows(content.value)))

(***************************************************************************)
(* audit_navigation_styling                                                *)
(***************************************************************************)
NavigationRows(content) ==
    << Row("Navigation", <<"Has navigation bar configuration">>,
           Contains(content, <<"UINavigationBarAppearance">>),
           <<"UINavigationBarAppearance setup">>, DefaultSeverity),
       Row("Navigation", <<"Has tab bar configuration">>,
           Contains(content, <<"UITabBarAppearance">>),
           <<"UITabBarAppearance setup">>, DefaultSeverity),
       Row("Navigation", <<"Has heading color applied">>,
           Contains(content, <<"UIColor.iaHeading">>),
           <<"iaHeading color in navigation">>, DefaultSeverity),
       Row("Navigation", <<"Has gold tint applied">>,
           Contains(content, <<"UIColor.iaGold">>),
           <<"iaGold tint color">>, DefaultSeverity) >>

audit_navigation_styling(res, f) ==
    LET content == read_file(f, app_path)
    IN  IF content.raised THEN Raised(res)
        ELSE Done(AddAll(res, NavigationRows(content.value)))

(***************************************************************************)
(* audit_brand_consistency                                                 *)
(***************************************************************************)
brand_elements == <<
    [m |-> <<"InsightAtlasColors">>, desc |-> "Color palette struct"],
    [m |-> <<"InsightAtlasTypography">>, desc |-> "Typography struct"],
    [m |-> <<"InsightAtlasBrand">>, desc |-> "Brand constants"],
    [m |-> <<"gold = Color(hex: \"#CBA135\")">>, desc |-> "Gold color definition"],
    [m |-> <<"burgundy = Color(hex: \"#582534\")">>, desc |-> "Burgundy color definition"],
    [m |-> <<"coral = Color(hex: \"#E76F51\")">>, desc |-> "Coral color definition"] >>

uicolor_extensions == <<
    <<"static let iaGold">>,
    <<"static let iaHeading">>,
    <<"static let iaBurgundy">>,
    <<"static let iaCoral">> >>

BrandRows(style_content) ==
    [i \in 1..Len(brand_elements) |->
        LET c == brand_elements[i]
            has_element == Contains(style_content, c.m)
        IN  Row("Brand Consistency", <<"Has ", c.desc>>, has_element,
                <<"Brand element: ">> \o c.m, DefaultSeverity)]
    \o
    [i \in 1..Len(uicolor_extensions) |->
        LET ext == uicolor_extensions[i]
            has_ext == Contains(style_content, ext)
        IN  Row("Brand Consistency", <<"Has ">> \o ext, has_ext,
                <<"UIColor extension: ">> \o ext, DefaultSeverity)]

audit_brand_consistency(res, f) ==
    LET style_content == read_file(f, style_path)
    IN  IF style_content.raised THEN Raised(res)
        ELSE Done(AddAll(res, BrandRows(style_content.value)))

(***************************************************************************)
(* audit_project_hygiene                                                   *)
(***************************************************************************)
\* the concatenation of a sequence of sequences (by halves)
RECURSIVE Flatten(_)
Flatten(seqs) ==
    IF seqs = <<>> THEN <<>>
    ELSE IF Len(seqs) = 1 THEN seqs[1]
    ELSE LET h == Len(seqs) \div 2
         IN  Flatten(SubSeq(seqs, 1, h)) \o Flatten(SubSeq(seqs, h + 1, Len(seqs)))

\* try: text = path.read_text() except Exception: continue; if pattern.search(text)
TextMatches(f, path, patterns) ==
    LET text == path_read_text(f, path)
    IN  /\ ~text.raised
        /\ \E k \in 1..Len(patterns) : re_search(patterns[k], text.value)

\* for root in self.source_roots: if not root.exists(): continue;
\* for path in root.rglob(pat): if Keep(path): found.append(str(path))
\* (the paths a scan of the roots collects; an empty patterns keeps every path)
ScanRoots(f, roots, pat, patterns) ==
    Flatten([r \in 1..Len(roots) |->
        LET root == roots[r]
            Keep(path) == patterns = <<>> \/ TextMatches(f, path, patterns)
            hits == IF path_exists(f, root)
                    THEN SelectSeq(path_rglob(f, root, pat), Keep)
                    ELSE <<>>
        IN  [i \in 1..Len(hits) |-> PathStr(hits[i])]])

\* re.compile(r"\b(TODO|FIXME|HACK)\b")
marker_pattern == <<WordBoundary, Alt({"TODO", "FIXME", "HACK"}), WordBoundary>>

FirstOrNone(found) == IF found # <<>> THEN found[1] ELSE <<"none">>

HygieneRows(f) ==
    LET apple_double_files == ScanRoots(f, source_roots, <<"._", "*">>, <<>>)
        duplicate_swift == ScanRoots(f, source_roots, <<"*", " 2", ".swift">>, <<>>)
        markers == ScanRoots(f, source_roots, <<"*", ".swift">>, <<marker_pattern>>)
        tests_root == PathDiv(project_path, << <<"InsightAtlasTests">> >>)
        test_files == IF path_exists(f, tests_root)
                      THEN path_rglob(f, tests_root, <<"*", "Tests", ".swift">>)
                      ELSE <<>>
    IN  << Row("Project Hygiene", <<"No AppleDouble (._) files in source roots">>,
               Len(apple_double_files) = 0,
               <<"Remove AppleDouble files: ">> \o FirstOrNone(apple_double_files),
               DefaultSeverity),
           Row("Project Hygiene", <<"No duplicate Swift files with ' 2.swift' suffix">>,
               Len(duplicate_swift) = 0,
               <<"Remove duplicate Swift files: ">> \o FirstOrNone(duplicate_swift),
               DefaultSeverity),
           Row("Project Hygiene", <<"No TODO/FIXME/HACK markers">>,
               Len(markers) = 0,
               <<"Resolve markers in: ">> \o FirstOrNone(markers),
               DefaultSeverity),
           Row("Project Hygiene", <<"Has test suite files">>,
               Len(test_files) > 0,
               <<"No *Tests.swift files found in InsightAtlasTests">>,
               DefaultSeverity) >>

audit_project_hygiene(res, f) == Done(AddAll(res, HygieneRows(f)))

(***************************************************************************)
(* audit_info_plist                                                        *)
(***************************************************************************)
required_identifier == <<"com.insightatlas.guide-generation">>

InfoPlistRows(plist_content) ==
    << Row("Info.plist", <<"Has BGTaskSchedulerPermittedIdentifiers entry">>,
           Contains(plist_content, required_identifier),
           <<"Missing BGTaskSchedulerPermittedIdentifiers for ">> \o required_identifier,
           DefaultSeverity),
       Row("Info.plist", <<"Includes UIBackgroundModes processing">>,
           /\ Contains(plist_content, <<"processing">>)
           /\ Contains(plist_content, <<"UIBackgroundModes">>),
           <<"UIBackgroundModes missing 'processing'">>,
           DefaultSeverity) >>

\* an audit_info_plist without the test for an empty content
audit_info_plist_NoExistsCheck(res, f) ==
    LET plist_content == read_file(f, info_plist_path)
    IN  IF plist_content.raised THEN Raised(res)
        ELSE Done(AddAll(res, InfoPlistRows(plist_content.value)))

audit_info_plist(res, f) ==
    LET plist_content == read_file(f, info_plist_path)
    IN  IF plist_content.raised THEN Raised(res)
        ELSE IF plist_content.value = <<>>
             THEN Done(add_result(res, "Info.plist", <<"Info.plist exists">>, FALSE,
                                  <<"InsightAtlas", "/", "Info", ".plist", " not found">>,
                                  DefaultSeverity))
             ELSE Done(AddAll(res, InfoPlistRows(plist_content.value)))

(***************************************************************************)
(* audit_risky_patterns                                                    *)
(***************************************************************************)
\* re.compile(r"URL\\(string:\\s*[^\\)]+\\)!"): in a raw string "\\" is two
\* characters, which the pattern language reads as one literal backslash, so
\* the parentheses that follow are a group and the "s" an ordinary letter:
\*   URL  \  ( string:  \  s*  [^\)]+  \  )  !
risky_url_pattern ==
    <<Lit("URL"), Lit("\\"), Lit("string:"), Lit("\\"), Star({"s"}),
      PlusNot({"\\", ")"}), Lit("\\"), Lit("!")>>

\* re.compile(r"try!")
risky_try_pattern == <<Lit("try"), Lit("!")>>

risky_patterns == <<risky_url_pattern, risky_try_pattern>>

RiskyRows(f) ==
    LET risky_locations == ScanRoots(f, source_roots, <<"*", ".swift">>, risky_patterns)
    IN  << Row("Risky Patterns", <<"No force unwraps or try! in source">>,
               Len(risky_locations) = 0,
               <<"Review risky patterns in: ">> \o FirstOrNone(risky_locations),
               "warning") >>

audit_risky_patterns(res, f) == Done(AddAll(res, RiskyRows(f)))

(***************************************************************************)
(* print_results                                                           *)
(*                                                                         *)
(* A printed line is kept as its format and its arguments, not as text.    *)
(* Numbers that Python computes with "/" are exact fractions here.         *)
(***************************************************************************)
RECURSIVE Gcd(_, _)
Gcd(a, b) == IF b = 0 THEN a ELSE Gcd(b, a % b)

Rat(n, d) == LET g == Gcd(n, d) IN [num |-> n \div g, den |-> d \div g]
Zero == [num |-> 0, den |-> 1]

\* a / b: a fraction, or ZeroDivisionError
TrueDiv(a, b) ==
    IF b = 0 THEN [raised |-> TRUE, value |-> Zero]
    ELSE [raised |-> FALSE, value |-> Rat(a, b)]

RatMul(r, k) == Rat(r.num * k, r.den)

Line(kind, text, check, message, n, m, score) ==
    [kind |-> kind, text |-> text, check |-> check, message |-> message,
     n |-> n, m |-> m, score |-> score]

Text(text) == Line("text", text, <<>>, <<>>, 0, 0, Zero)

\* categories = {}; for result in self.results: ... categories[c].append(result)
\* a dict is a sequence of [key, value] in insertion order
\* (the loop is unrolled by halves: first the first half of rest, then the second;
\* the test on Len(categories) only makes the dict built so far be evaluated first)
RECURSIVE GroupByCategory(_, _)
GroupByCategory(categories, rest) ==
    IF Len(categories) >= 0 /\ rest = <<>> THEN categories
    ELSE IF Len(rest) = 1
    THEN LET result == rest[1]
             known == \E i \in 1..Len(categories) : categories[i].key = result.category
             withKey == IF known THEN categories
                        ELSE Append(categories, [key |-> result.category, value |-> <<>>])
         IN  [i \in 1..Len(withKey) |->
                 IF withKey[i].key = result.category
                 THEN [key |-> withKey[i].key, value |-> Append(withKey[i].value, result)]
                 ELSE withKey[i]]
    ELSE LET h == Len(rest) \div 2
         IN  GroupByCategory(GroupByCategory(categories, SubSeq(rest, 1, h)),
                             SubSeq(rest, h + 1, Len(rest)))

\* sum(1 for r in rs if r.passed)
CountPassed(rs) == Len(SelectSeq(rs, LAMBDA r : r.passed))

\* the lines of one category: header, rule, then a line per result and a
\* message line under each failing one
ResultLines(rs) ==
    Flatten([i \in 1..Len(rs) |->
        LET result == rs[i]
            status == IF result.passed THEN "pass" ELSE "fail"
        IN  << Line("check", status, result.check, <<>>, 0, 0, Zero) >>
            \o (IF ~result.passed
                THEN << Line("message", "", <<>>, result.message, 0, 0, Zero) >>
                ELSE <<>>)])

\* a category listing that goes through the dict from its last key to its first
CategoryLines_Reversed(categories) ==
    Flatten([k \in 1..Len(categories) |->
        LET entry == categories[Len(categories) + 1 - k]
        IN  << Line("category", entry.key, <<>>, <<>>,
                    CountPassed(entry.value), Len(entry.value), Zero),
               Text("-" \o "*40") >>
            \o ResultLines(entry.value)])

\* for category, results in categories.items(): header, rule, result lines
RECURSIVE CategoryLines(_)
CategoryLines(categories) ==
    IF categories = <<>> THEN <<>>
    ELSE LET category == Head(categories).key
             rs == Head(categories).value
             passed == CountPassed(rs)
             total == Len(rs)
         IN  << Line("category", category, <<>>, <<>>, passed, total, Zero),
                Text("-" \o "*40") >>
             \o ResultLines(rs)
             \o CategoryLines(Tail(categories))

\* for result in self.results: if not result.passed: two lines
FailedLines(rs) ==
    Flatten([i \in 1..Len(rs) |->
        LET result == rs[i]
        IN  IF ~result.passed
            THEN << Line("failed_item", result.category, result.check, <<>>, 0, 0, Zero),
                    Line("failed_message", "", <<>>, result.message, 0, 0, Zero) >>
            ELSE <<>>])

\* a score computed without the guard against an empty result list
Score_NoGuard(passed_checks, total_checks) ==
    LET q == TrueDiv(passed_checks, total_checks)
    IN  [raised |-> q.raised, value |-> RatMul(q.value, 100)]

\* score = (passed_checks / total_checks * 100) if total_checks > 0 else 0
Score(passed_checks, total_checks) ==
    IF total_checks > 0
    THEN LET q == TrueDiv(passed_checks, total_checks)
         IN  [raised |-> q.raised, value |-> RatMul(q.value, 100)]
    ELSE [raised |-> FALSE, value |-> Zero]

AllPassedText == "All checks passed! Codebase meets 100% quality standards."
FailedChecksText == "FAILED CHECKS:"

\* the ending of a report whose listing shows every result
Ending_ListsAll(res, failed_checks) ==
    IF failed_checks > 0
    THEN << Line("issues", "", <<>>, <<>>, failed_checks, 0, Zero),
            Text(FailedChecksText) >>
         \o Flatten([i \in 1..Len(res) |->
               << Line("failed_item", res[i].category, res[i].check, <<>>, 0, 0, Zero),
                  Line("failed_message", "", <<>>, res[i].message, 0, 0, Zero) >>])
    ELSE << Text(AllPassedText) >>

\* if failed_checks > 0: the failure listing; else: the confirmation
Ending(res, failed_checks) ==
    IF failed_checks > 0
    THEN << Line("issues", "", <<>>, <<>>, failed_checks, 0, Zero),
            Text(FailedChecksText) >>
         \o FailedLines(res)
    ELSE << Text(AllPassedText) >>

\* a grouping that files every result under the first category
Grouped_FirstCategory(res) ==
    IF res = <<>> THEN <<>> ELSE << [key |-> res[1].category, value |-> res] >>

\* the categories dict of print_results
Grouped(res) == GroupByCategory(<<>>, res)

\* print_results: the lines printed and the score returned, or an exception
\* raised after the category listing
print_results(res) ==
    LET categories == Grouped(res)
        total_checks == Len(res)
        passed_checks == CountPassed(res)
        failed_checks == total_checks - passed_checks
        score == Score(passed_checks, total_checks)
        head == << Text("=" \o "*60"), Text("AUDIT RESULTS"), Text("=" \o "*60") >>
                \o CategoryLines(categories)
    IN  IF score.raised
        THEN [raised |-> TRUE, score |-> Zero, lines |-> head]
        ELSE [raised |-> FALSE, score |-> score.value,
              lines |-> head
                  \o << Text("=" \o "*60"),
                        Line("summary", "", <<>>, <<>>, passed_checks, total_checks, score.value),
                        Text("=" \o "*60") >>
                  \o Ending(res, failed_checks)]

(***************************************************************************)
(* The audited projects.  The complete project holds every target file     *)
(* with every marker the audit looks for, and one test file.  The file     *)
(* systems explored differ from it in at most MaxDeviations places: a      *)
(* source root or a target file that is absent, unreadable or incomplete,  *)
(* or an extra file below a source root.                                   *)
(***************************************************************************)
RECURSIVE JoinLines(_)
JoinLines(ls) ==
    IF ls = <<>> THEN <<>>
    ELSE Head(ls) \o <<"\n">> \o JoinLines(Tail(ls))

OddLines(ls) == [i \in 1..((Len(ls) + 1) \div 2) |-> ls[2 * i - 1]]

DataManagerLines ==
    [i \in 1..Len(required_css_classes) |->
        <<".">> \o required_css_classes[i].m \o <<" ", "{", "}">>]
    \o [i \in 1..Len(required_functions) |->
        <<"private ", "func ">> \o required_functions[i].m \o <<"(", ")">>]
    \o << ListTypeUl, ListTypeOl >>
    \o [i \in 1..Len(brand_colors) |-> brand_colors[i].m]
    \o << HeaderBrandClass, <<"func ", "generatePDF", "(", ")">> >>
    \o [i \in 1..Len(special_blocks) |->
        <<"if", " ", "line.hasPrefix", "(", "\"">> \o special_blocks[i].m \o <<"\"", ")">>]
    \o pdf_colors
    \o << <<"func ", "generateDOCX", "(", ")">> >>
    \o [i \in 1..Len(docx_styles) |-> <<"styleId=\"">> \o docx_styles[i].m \o <<"\"">>]
    \o << <<"w:color w:val=\"", "CBA135", "\"">>, <<"w:color=\"", "582534", "\"">> >>

GuideViewLines ==
    [i \in 1..Len(block_views) |-> block_views[i].m]
    \o << <<"qualityScore">>, <<"showingRegenerateConfirmation">>, <<"RegenerateView">> >>

QualityServiceLines ==
    required_sections
    \o << <<"Word", " ", "Count">>, <<"heading", " ", "structure">>,
          <<"Properly", " ", "closed">>, <<"passingThreshold">> >>

RegenerateViewLines ==
    << <<"maxIterations">>, <<"Progress", "View">>, <<"currentScore">>, <<"auditReport">> >>

AppLines ==
    << <<"UINavigationBarAppearance">>, <<"UITabBarAppearance">>,
       <<"UIColor.iaHeading">>, <<"UIColor.iaGold">> >>

StyleLines == [i \in 1..Len(brand_elements) |-> brand_elements[i].m] \o uicolor_extensions

InfoPlistLines == << required_identifier, <<"UIBackgroundModes">>, <<"processing">> >>

\* the target files, in the order of a directory walk, with their complete text
TargetFiles == <<
    [path |-> info_plist_path, lines |-> InfoPlistLines],
    [path |-> app_path, lines |-> AppLines],
    [path |-> data_manager_path, lines |-> DataManagerLines],
    [path |-> style_path, lines |-> StyleLines],
    [path |-> quality_audit_path, lines |-> QualityServiceLines],
    [path |-> guide_view_path, lines |-> GuideViewLines],
    [path |-> regenerate_view_path, lines |-> RegenerateViewLines] >>

FileVariants == {"full", "partial", "denied", "absent"}
RootVariants == {"present", "denied", "absent"}

TargetEntry(t, variant) ==
    Entry(t.path, "file",
          IF variant = "denied" THEN "denied" ELSE "ok",
          CASE variant = "full" -> JoinLines(t.lines)
            [] variant = "partial" -> JoinLines(OddLines(t.lines))
            [] OTHER -> <<>>)

TestsFile ==
    Entry(PathDiv(source_roots[2], << <<"Guide", "Tests", ".swift">> >>), "file", "ok",
          <<"import", " ", "XCTest">>)

\* files that may lie below the source roots besides the target files
ExtraPool == {
    Entry(PathDiv(source_roots[1], << <<"Views">>, <<"._", "GuideView", ".swift">> >>),
          "file", "undecodable", <<>>),
    Entry(PathDiv(source_roots[1], << <<"Views">>, <<"GuideView", " 2", ".swift">> >>),
          "file", "ok", <<"struct", " ", "GuideView">>),
    Entry(PathDiv(source_roots[1], << <<"Notes", ".swift">> >>),
          "file", "ok", <<"//", " ", "TODO", ":", " ", "tidy">>),
    Entry(PathDiv(source_roots[2], << <<"Helper", ".swift">> >>),
          "file", "ok", <<"//", " ", "FIXME", " ", "later">>),
    Entry(PathDiv(source_roots[1], << <<"Words", ".swift">> >>),
          "file", "ok", <<"let", " ", "TODO", "S", " ", "=", " ", "0">>),
    Entry(PathDiv(source_roots[1], << <<"Locked", ".swift">> >>),
          "file", "denied", <<"//", " ", "HACK">>),
    Entry(PathDiv(source_roots[1], << <<"Loader", ".swift">> >>),
          "file", "ok", <<"let", " ", "d", " ", "=", " ", "try", "!", " ", "load", "(", ")">>),
    Entry(PathDiv(source_roots[2], << <<"Links", ".swift">> >>),
          "file", "ok",
          <<"let", " ", "u", " ", "=", " ", "URL", "(", "string:", " ", "\"", "x", "\"", ")", "!">>),
    Entry(PathDiv(source_roots[1], << <<"Escapes", ".swift">> >>),
          "file", "ok", <<"URL", "\\", "string:", "\\", "s", "x", "\\", "!">>) }

\* the sequences of at most n distinct extra files
RECURSIVE ExtraSeqs(_)
ExtraSeqs(n) ==
    IF n = 0 THEN {<<>>}
    ELSE LET shorter == ExtraSeqs(n - 1)
         IN  shorter \cup
             {Append(q, e) : q \in {r \in shorter : Len(r) = n - 1},
                             e \in ExtraPool}

NoRepeat(q) == \A i, j \in 1..Len(q) : i # j => q[i] # q[j]

\* the assignments of a variant to each of n things, at most k of them not the first
Choices(n, first, others, k) ==
    UNION {{[i \in 1..n |-> IF i \in S THEN c[i] ELSE first] : c \in [S -> others]} :
           S \in {T \in SUBSET (1..n) : Cardinality(T) <= k}}

\* a project described by the state of its roots and target files and its extras
MkFS(roots, files, extras) ==
    LET rootEntries == SelectSeq(
            [i \in 1..2 |-> Entry(source_roots[i], "dir",
                                  IF roots[i] = "denied" THEN "denied" ELSE "ok", <<>>)],
            LAMBDA e : \E i \in 1..2 : e.path = source_roots[i] /\ roots[i] # "absent")
        gone(path) == \E i \in 1..2 : IsUnder(path, source_roots[i]) /\ roots[i] = "absent"
        targetEntries == SelectSeq(
            [i \in 1..Len(TargetFiles) |-> TargetEntry(TargetFiles[i], files[i])],
            LAMBDA e : ~gone(e.path)
                       /\ \E i \in 1..Len(TargetFiles) :
                              TargetFiles[i].path = e.path /\ files[i] # "absent")
        others == SelectSeq(<<TestsFile>> \o extras, LAMBDA e : ~gone(e.path))
    IN  rootEntries \o targetEntries \o others

Deviations(roots, files, extras) ==
    Cardinality({i \in 1..2 : roots[i] # "present"})
    + Cardinality({i \in 1..Len(TargetFiles) : files[i] # "full"})
    + Len(extras)

FileSystems ==
    {MkFS(d[1], d[2], d[3]) :
        d \in {e \in Choices(2, "present", RootVariants \ {"present"}, MaxDeviations)
                     \X Choices(Len(TargetFiles), "full", FileVariants \ {"full"}, MaxDeviations)
                     \X {q \in ExtraSeqs(MaxDeviations) : NoRepeat(q)} :
               Deviations(e[1], e[2], e[3]) <= MaxDeviations}}

CompleteProject ==
    MkFS([i \in 1..2 |-> "present"], [i \in 1..Len(TargetFiles) |-> "full"], <<>>)

\* a handful of projects for the direct calls of the audit groups
SampleFileSystems == {
    CompleteProject,
    MkFS([i \in 1..2 |-> "present"], [i \in 1..Len(TargetFiles) |-> "partial"], <<>>),
    MkFS([i \in 1..2 |-> "present"], [i \in 1..Len(TargetFiles) |-> "empty"], <<>>),
    MkFS([i \in 1..2 |-> "absent"], [i \in 1..Len(TargetFiles) |-> "absent"], <<>>),
    MkFS([i \in 1..2 |-> "denied"], [i \in 1..Len(TargetFiles) |-> "full"], <<>>),
    MkFS([i \in 1..2 |-> "present"], [i \in 1..Len(TargetFiles) |-> "full"],
         <<CHOOSE e \in ExtraPool : PathName(e.path) = <<"Loader", ".swift">>,
           CHOOSE e \in ExtraPool : PathName(e.path) = <<"Notes", ".swift">>,
           CHOOSE e \in ExtraPool : PathName(e.path) = <<"._", "GuideView", ".swift">> >>) }

(***************************************************************************)
(* The auditor as a state machine                                          *)
(***************************************************************************)
\* the audit groups in the order in which audit_all calls them
GroupOrder == <<
    "audit_html_export", "audit_pdf_export", "audit_docx_export", "audit_guide_view",
    "audit_quality_service", "audit_regenerate_view", "audit_navigation_styling",
    "audit_brand_consistency", "audit_project_hygiene", "audit_info_plist",
    "audit_risky_patterns" >>

Groups == {GroupOrder[i] : i \in 1..Len(GroupOrder)}

\* the body of a group, by name
RunGroup(g, res, f) ==
    CASE g = "audit_html_export" -> audit_html_export(res, f)
      [] g = "audit_pdf_export" -> audit_pdf_export(res, f)
      [] g = "audit_docx_export" -> audit_docx_export(res, f)
      [] g = "audit_guide_view" -> audit_guide_view(res, f)
      [] g = "audit_quality_service" -> audit_quality_service(res, f)
      [] g = "audit_regenerate_view" -> audit_regenerate_view(res, f)
      [] g = "audit_navigation_styling" -> audit_navigation_styling(res, f)
      [] g = "audit_brand_consistency" -> audit_brand_consistency(res, f)
      [] g = "audit_project_hygiene" -> audit_project_hygiene(res, f)
      [] g = "audit_info_plist" -> audit_info_plist(res, f)
      [] g = "audit_risky_patterns" -> audit_risky_patterns(res, f)

\* print("Auditing ...") at the head of each group
Announce(g) ==
    Line("auditing",
         CASE g = "audit_html_export" -> "Auditing HTML Export..."
           [] g = "audit_pdf_export" -> "Auditing PDF Export..."
           [] g = "audit_docx_export" -> "Auditing DOCX Export..."
           [] g = "audit_guide_view" -> "Auditing GuideView..."
           [] g = "audit_quality_service" -> "Auditing QualityAuditService..."
           [] g = "audit_regenerate_view" -> "Auditing RegenerateView..."
           [] g = "audit_navigation_styling" -> "Auditing Navigation & Styling..."
           [] g = "audit_brand_consistency" -> "Auditing Brand Consistency..."
           [] g = "audit_project_hygiene" -> "Auditing Project Hygiene..."
           [] g = "audit_info_plist" -> "Auditing Info.plist..."
           [] g = "audit_risky_patterns" -> "Auditing Risky Patterns...",
         <<>>, <<>>, 0, 0, Zero)

\* the four lines audit_all prints first
AuditAllBanner ==
    << Text("=" \o "*60"), Line("title", "INSIGHT ATLAS iOS CODEBASE AUDIT", <<>>, <<>>, 0, 0, Zero),
       Text("=" \o "*60"), Text("") >>

None == [kind |-> "none", value |-> Zero]
Returned(score) == [kind |-> "score", value |-> score]
Exception == [kind |-> "exception", value |-> Zero]

\* the log with one more operation, which starts now
Logged(op) == Append(log, [op |-> op, res0 |-> Len(results), out0 |-> Len(stdout)])

\* the last operation executed
mark == log[Len(log)]

\* what comes after group g in audit_all
After(g) ==
    LET i == CHOOSE k \in 1..Len(GroupOrder) : GroupOrder[k] = g
    IN  IF i < Len(GroupOrder) THEN GroupOrder[i + 1] ELSE "print_results"

\* auditor = InsightAtlasAuditor(project_path)
Construct(systems) ==
    /\ fs \in systems
    /\ results = InitialResults
    /\ stdout = <<>>
    /\ pc = "idle"
    /\ ret = None
    /\ log = << [op |-> "__init__", res0 |-> 0, out0 |-> 0] >>
    /\ calls = 0

\* the effect of one audit group on the auditor
GroupEffect(g, next) ==
    LET r == RunGroup(g, results, fs)
    IN  /\ results' = r.results
        /\ stdout' = Append(stdout, Announce(g))
        /\ log' = Logged(g)
        /\ pc' = IF r.raised THEN "aborted" ELSE next
        /\ ret' = IF r.raised THEN Exception ELSE ret
        /\ UNCHANGED fs

\* the effect of print_results on the auditor
ReportEffect(next) ==
    LET r == print_results(results)
    IN  /\ stdout' = stdout \o r.lines
        /\ log' = Logged("print_results")
        /\ pc' = IF r.raised THEN "aborted" ELSE next
        /\ ret' = IF r.raised THEN Exception ELSE Returned(r.score)
        /\ UNCHANGED <<fs, results>>

(***************************************************************************)
(* Spec: audit_all, invoked up to MaxRuns times on one auditor             *)
(***************************************************************************)
Init == Construct(FileSystems)

AuditAll ==
    /\ pc = "idle"
    /\ calls < MaxRuns
    /\ stdout' = stdout \o AuditAllBanner
    /\ log' = Logged("audit_all")
    /\ pc' = GroupOrder[1]
    /\ calls' = calls + 1
    /\ UNCHANGED <<fs, results, ret>>

Step(g) == pc = g /\ GroupEffect(g, After(g)) /\ UNCHANGED calls

AuditHtmlExport == Step("audit_html_export")
AuditPdfExport == Step("audit_pdf_export")
AuditDocxExport == Step("audit_docx_export")
AuditGuideView == Step("audit_guide_view")
AuditQualityService == Step("audit_quality_service")
AuditRegenerateView == Step("audit_regenerate_view")
AuditNavigationStyling == Step("audit_navigation_styling")
AuditBrandConsistency == Step("audit_brand_consistency")
AuditProjectHygiene == Step("audit_project_hygiene")
AuditInfoPlist == Step("audit_info_plist")
AuditRiskyPatterns == Step("audit_risky_patterns")

\* return self.print_results()
AuditAllReport == pc = "print_results" /\ ReportEffect("idle") /\ UNCHANGED calls

Next ==
    \/ AuditAll
    \/ AuditHtmlExport
    \/ AuditPdfExport
    \/ AuditDocxExport
    \/ AuditGuideView
    \/ AuditQualityService
    \/ AuditRegenerateView
    \/ AuditNavigationStyling
    \/ AuditBrandConsistency
    \/ AuditProjectHygiene
    \/ AuditInfoPlist
    \/ AuditRiskyPatterns
    \/ AuditAllReport

Spec == Init /\ [][Next]_vars

(***************************************************************************)
(* SpecGroups: the audit groups called directly, in any order              *)
(***************************************************************************)
InitGroups == Construct(SampleFileSystems)

CallGroup(g) ==
    /\ pc = "idle"
    /\ calls < MaxGroupCalls
    /\ GroupEffect(g, "idle")
    /\ calls' = calls + 1

NextGroups == \E g \in Groups : CallGroup(g)

SpecGroups == InitGroups /\ [][NextGroups]_vars

(***************************************************************************)
(* SpecReport: add_result and print_results called directly                *)
(***************************************************************************)
InitReport == Construct({CompleteProject})

\* the arguments the direct calls of add_result draw from
SomeCategories == {"HTML Export", "Risky Patterns"}
SomeSeverities == {"error"}

CallAddResult(category, passed, severity) ==
    /\ pc = "idle"
    /\ calls < MaxReportCalls
    /\ results' = add_result(results, category, <<"Has ", category>>, passed,
                             <<category, IF passed THEN " found" ELSE " MISSING">>, severity)
    /\ log' = Logged("add_result")
    /\ calls' = calls + 1
    /\ ret' = None
    /\ UNCHANGED <<fs, stdout, pc>>

CallPrintResults ==
    /\ pc = "idle"
    /\ calls < MaxReportCalls
    /\ ReportEffect("idle")
    /\ calls' = calls + 1

NextReport ==
    \/ \E c \in SomeCategories, p \in BOOLEAN, s \in SomeSeverities : CallAddResult(c, p, s)
    \/ CallPrintResults

SpecReport == InitReport /\ [][NextReport]_vars

(***************************************************************************)
(* SpecCalls: the groups, add_result and print_results called directly,    *)
(* mixed in any order                                                      *)
(***************************************************************************)
InitCalls == Construct(SampleFileSystems)

DirectGroup(g) ==
    /\ pc = "idle"
    /\ calls < MaxCalls
    /\ GroupEffect(g, "idle")
    /\ calls' = calls + 1

DirectAddResult(category, passed, severity) ==
    /\ pc = "idle"
    /\ calls < MaxCalls
    /\ results' = add_result(results, category, <<"Has ", category>>, passed,
                             <<category, IF passed THEN " found" ELSE " MISSING">>, severity)
    /\ log' = Logged("add_result")
    /\ calls' = calls + 1
    /\ ret' = None
    /\ UNCHANGED <<fs, stdout, pc>>

DirectPrintResults ==
    /\ pc = "idle"
    /\ calls < MaxCalls
    /\ ReportEffect("idle")
    /\ calls' = calls + 1

NextCalls ==
    \/ \E g \in Groups : DirectGroup(g)
    \/ \E c \in SomeCategories, p \in BOOLEAN, s \in SomeSeverities : DirectAddResult(c, p, s)
    \/ DirectPrintResults

SpecCalls == InitCalls /\ [][NextCalls]_vars

(***************************************************************************)
(* What the claims speak of                                                *)
(***************************************************************************)
\* the lines printed and the results appended by the last operation
LastOutput == SubSeq(stdout, mark.out0 + 1, Len(stdout))
Appended == SubSeq(results, mark.res0 + 1, Len(results))

LinesOfKind(out, k) == SelectSeq(out, LAMBDA l : l.kind = k)
TextLines(out, t) == SelectSeq(out, LAMBDA l : l.kind = "text" /\ l.text = t)

NumPassed(rs) == Cardinality({i \in 1..Len(rs) : rs[i].passed})
NumFailed(rs) == Cardinality({i \in 1..Len(rs) : ~rs[i].passed})

\* the sums of the two numbers of a sequence of lines
RECURSIVE SumN(_)
SumN(ls) == IF ls = <<>> THEN 0 ELSE Head(ls).n + SumN(Tail(ls))
RECURSIVE SumM(_)
SumM(ls) == IF ls = <<>> THEN 0 ELSE Head(ls).m + SumM(Tail(ls))

\* the positions of the lines of a kind
Positions(out, k) == {i \in 1..Len(out) : out[i].kind = k}

\* the check lines printed under the category header at position p
Section(out, p) ==
    LET stops == {q \in Positions(out, "category") \cup Positions(out, "summary") : q > p}
        stop == IF stops = {} THEN Len(out) + 1
                ELSE CHOOSE q \in stops : \A r \in stops : q <= r
    IN  LinesOfKind(SubSeq(out, p + 1, stop - 1), "check")

(***************************************************************************)
(* C1                                                                      *)
(***************************************************************************)
\* C1: whatever results the auditor holds when print_results is called, the
\* call raises no division error and returns passed/total*100 when there
\* are results and 0 when there are none.
C1_Score ==
    mark.op = "print_results" =>
        /\ pc # "aborted"
        /\ ret.kind = "score"
        /\ Len(results) = 0 => ret.value = Zero
        /\ Len(results) > 0 =>
               ret.value.num * Len(results) = NumPassed(results) * 100 * ret.value.den

\* three passing and two failing results give 60
C1_Witness ==
    /\ mark.op = "print_results"
    /\ Len(results) = 5
    /\ NumPassed(results) = 3
    /\ ret = Returned([num |-> 60, den |-> 1])

(***************************************************************************)
(* C2                                                                      *)
(***************************************************************************)
\* C2: the report groups the results into one section per category present;
\* the header of a category shows the number of its passing results and the
\* number of results bearing it, its section lists as many passing and
\* failing checks, every result is listed in exactly one section, and the
\* headers sum to the passed and total counts of the summary, the total
\* being the passed count plus the failed count.
C2_Partition ==
    mark.op = "print_results" =>
        LET out == LastOutput
            heads == Positions(out, "category")
            summary == LinesOfKind(out, "summary")
            issues == LinesOfKind(out, "issues")
            cats == {results[i].category : i \in 1..Len(results)}
            bearing(c) == {i \in 1..Len(results) : results[i].category = c}
            failed_checks == IF issues = <<>> THEN 0 ELSE issues[1].n
        IN  /\ \A c \in cats :
                   \E p \in heads :
                       /\ out[p].text = c
                       /\ \A q \in heads : out[q].text = c => q = p
                       /\ out[p].m = Cardinality(bearing(c))
                       /\ out[p].n = Cardinality({i \in bearing(c) : results[i].passed})
                       /\ LET listed == Section(out, p)
                          IN  /\ Len(listed) = Cardinality(bearing(c))
                              /\ Len(SelectSeq(listed, LAMBDA l : l.text = "pass")) = out[p].n
                              /\ Len(SelectSeq(listed, LAMBDA l : l.text = "fail"))
                                     = Cardinality({i \in bearing(c) : ~results[i].passed})
            /\ \A p \in heads : out[p].text \in cats
            /\ Len(LinesOfKind(out, "check")) = Len(results)
            /\ Len(summary) = 1
            /\ summary[1].n = SumN(LinesOfKind(out, "category"))
            /\ summary[1].m = SumM(LinesOfKind(out, "category"))
            /\ summary[1].n = NumPassed(results)
            /\ summary[1].m = Len(results)
            /\ summary[1].m = summary[1].n + failed_checks

\* a report of two categories, one of them with a passing and a failing result
C2_Witness ==
    /\ mark.op = "print_results"
    /\ Len(results) >= 3
    /\ \E i, j, k \in 1..Len(results) :
           /\ results[i].category = results[j].category
           /\ results[i].passed /\ ~results[j].passed
           /\ results[k].category # results[i].category

(***************************************************************************)
(* C8                                                                      *)
(***************************************************************************)
\* C8: a report ends in exactly one of two ways.  With failing results it
\* ends with the failure listing: every failing result once, with its
\* category, check and message, in the order of the results, and no passing
\* result; the confirmation is not printed.  Without failing results it ends
\* with the confirmation and prints no listing.
C8_Endings ==
    mark.op = "print_results" =>
        LET out == LastOutput
            failing == SelectSeq(results, LAMBDA r : ~r.passed)
            items == Positions(out, "failed_item")
            first == Positions(out, "issues")
            listing == IF first = {} THEN <<>>
                       ELSE SubSeq(out, (CHOOSE p \in first : TRUE) + 2, Len(out))
        IN  IF Len(failing) > 0
            THEN /\ Cardinality(first) = 1
                 /\ \A p \in first : out[p].n = Len(failing)
                 /\ Len(TextLines(out, FailedChecksText)) = 1
                 /\ Len(TextLines(out, AllPassedText)) = 0
                 /\ Len(listing) = 2 * Len(failing)
                 /\ \A i \in 1..Len(failing) :
                        /\ listing[2 * i - 1].kind = "failed_item"
                        /\ listing[2 * i - 1].text = failing[i].category
                        /\ listing[2 * i - 1].check = failing[i].check
                        /\ listing[2 * i].kind = "failed_message"
                        /\ listing[2 * i].message = failing[i].message
                 /\ Cardinality(items) = Len(failing)
            ELSE /\ Len(TextLines(out, AllPassedText)) = 1
                 /\ out[Len(out)].text = AllPassedText
                 /\ Len(TextLines(out, FailedChecksText)) = 0
                 /\ first = {}
                 /\ items = {}
                 /\ Positions(out, "failed_message") = {}

\* a report whose results fail, pass and fail, in two categories
C8_Witness ==
    /\ mark.op = "print_results"
    /\ Len(results) = 3
    /\ ~results[1].passed /\ results[2].passed /\ ~results[3].passed
    /\ results[1].category # results[3].category

(***************************************************************************)
(* C3                                                                      *)
(***************************************************************************)
\* where the output of the current (or last) audit_all begins
RunStart ==
    LET ts == Positions(stdout, "title")
    IN  IF ts = {} THEN 0 ELSE CHOOSE t \in ts : \A u \in ts : u <= t

\* the groups announced since then, in order
RunAnnounced ==
    LET ls == LinesOfKind(SubSeq(stdout, RunStart + 1, Len(stdout)), "auditing")
    IN  [i \in 1..Len(ls) |-> ls[i].text]

FirstGroups(k) == [i \in 1..k |-> Announce(GroupOrder[i]).text]

GroupIndex(g) == CHOOSE k \in 1..Len(GroupOrder) : GroupOrder[k] = g

\* C3: whatever is present, absent or unreadable in the project, audit_all
\* runs the eleven groups once each in the fixed order, then print_results,
\* and returns a score; no group stops the run: the run is never aborted,
\* the groups announced before each step are exactly those that precede it,
\* every group leaves at least one result, and the run ends with the report
\* and a score.
C3_AllGroupsRun ==
    /\ pc # "aborted"
    /\ pc \in Groups => RunAnnounced = FirstGroups(GroupIndex(pc) - 1)
    /\ pc = "print_results" => RunAnnounced = FirstGroups(Len(GroupOrder))
    /\ (pc = "idle" /\ calls > 0) =>
           /\ RunAnnounced = FirstGroups(Len(GroupOrder))
           /\ mark.op = "print_results"
           /\ ret.kind = "score"
           /\ Len(LinesOfKind(LastOutput, "summary")) = 1
    /\ mark.op \in Groups => Len(Appended) >= 1

\* a run completed on a project without QualityAuditService.swift
C3_Witness ==
    /\ pc = "idle"
    /\ calls >= 1
    /\ ret.kind = "score"
    /\ ~path_exists(fs, quality_audit_path)
    /\ RunAnnounced = FirstGroups(Len(GroupOrder))

(***************************************************************************)
(* C4                                                                      *)
(***************************************************************************)
\* the target file a group reads
TargetOf(g) ==
    CASE g \in {"audit_html_export", "audit_pdf_export", "audit_docx_export"} -> data_manager_path
      [] g = "audit_guide_view" -> guide_view_path
      [] g = "audit_quality_service" -> quality_audit_path
      [] g = "audit_regenerate_view" -> regenerate_view_path
      [] g = "audit_navigation_styling" -> app_path
      [] g = "audit_brand_consistency" -> style_path
      [] g = "audit_info_plist" -> info_plist_path

ReadingGroups == Groups \ {"audit_project_hygiene", "audit_risky_patterns"}

\* the groups that test the content they read before their sub-checks
GuardedGroups == {"audit_quality_service", "audit_regenerate_view", "audit_info_plist"}

\* the message gives the name of the file
NamesFile(message, path) == Contains(message, PathName(path))

\* C4 as claimed: every group that reads a target file appends, when the file
\* is missing, a failing result whose message names the file.
C4_Original ==
    \A g \in ReadingGroups :
        (mark.op = g /\ ~path_exists(fs, TargetOf(g))) =>
            \E i \in 1..Len(Appended) :
                ~Appended[i].passed /\ NamesFile(Appended[i].message, TargetOf(g))

\* C4 (amended): when its target file is missing, audit_quality_service,
\* audit_regenerate_view and audit_info_plist append exactly one result, which
\* fails and whose message names the file; every other group that reads a
\* target file appends failing results only, at least one, and none of their
\* messages names the file.
C4_MissingFile ==
    \A g \in ReadingGroups :
        (mark.op = g /\ ~path_exists(fs, TargetOf(g))) =>
            IF g \in GuardedGroups
            THEN /\ Len(Appended) = 1
                 /\ ~Appended[1].passed
                 /\ NamesFile(Appended[1].message, TargetOf(g))
            ELSE /\ Len(Appended) >= 1
                 /\ \A i \in 1..Len(Appended) :
                        /\ ~Appended[i].passed
                        /\ ~NamesFile(Appended[i].message, TargetOf(g))

\* audit_info_plist has run on a project without Info.plist
C4_Witness ==
    /\ mark.op = "audit_info_plist"
    /\ ~path_exists(fs, info_plist_path)
    /\ Len(Appended) = 1

(***************************************************************************)
(* C5                                                                      *)
(***************************************************************************)
\* the results held when the current (or last) audit_all began
RunResults0 ==
    LET starts == {k \in 1..Len(log) : log[k].op = "audit_all"}
    IN  IF starts = {} THEN 0
        ELSE log[CHOOSE k \in starts : \A j \in starts : j <= k].res0

\* C5: in every run of audit_all the result list is empty when the first
\* group starts, and the report of the run counts the results of that run only.
C5_FreshResults ==
    /\ pc = GroupOrder[1] => results = <<>>
    /\ (pc = "idle" /\ calls > 0 /\ mark.op = "print_results") =>
           \A i \in 1..Len(LastOutput) :
               LastOutput[i].kind = "summary" =>
                   LastOutput[i].m = Len(results) - RunResults0

(***************************************************************************)
(* C6                                                                      *)
(***************************************************************************)
\* the results appended by the k-th operation of the log
Segment(k) ==
    SubSeq(results, log[k].res0 + 1,
           IF k < Len(log) THEN log[k + 1].res0 ELSE Len(results))

\* C6: on one file system, two runs of the same group append the same
\* records in the same order, whatever the result list held before each.
C6_Idempotent ==
    \A i, j \in 1..Len(log) :
        (i < j /\ log[i].op \in Groups /\ log[i].op = log[j].op) =>
            Segment(i) = Segment(j)

\* audit_regenerate_view has run twice in a row on a file with content
C6_Witness ==
    /\ Len(log) = 3
    /\ log[2].op = "audit_regenerate_view"
    /\ log[3].op = "audit_regenerate_view"
    /\ Len(Segment(3)) > 1

(***************************************************************************)
(* C7                                                                      *)
(***************************************************************************)
\* the files a walk of the existing source roots meets, root by root
Walked ==
    Flatten([r \in 1..Len(source_roots) |->
        SelectSeq(fs, LAMBDA e :
            /\ e.kind = "file"
            /\ IsUnder(e.path, source_roots[r])
            /\ \A i \in 1..Len(fs) :
                   fs[i].path = source_roots[r] => fs[i].state = "ok")])

EndsWith(name, suffix) ==
    /\ Len(name) >= Len(suffix)
    /\ SubSeq(name, Len(name) - Len(suffix) + 1, Len(name)) = suffix

IsSwiftText(e) == EndsWith(PathName(e.path), <<".swift">>) /\ e.state = "ok"

\* a file named ._*
IsAppleDouble(e) == Head(PathName(e.path)) = "._"

\* a file named "* 2.swift"
IsDuplicateSwift(e) == EndsWith(PathName(e.path), <<" 2", ".swift">>)

\* a Swift file with the word TODO, FIXME or HACK
HasMarker(e) ==
    /\ IsSwiftText(e)
    /\ \E i \in 1..Len(e.text) :
           /\ e.text[i] \in {"TODO", "FIXME", "HACK"}
           /\ i > 1 => ~IsWordTok(e.text[i - 1])
           /\ i < Len(e.text) => ~IsWordTok(e.text[i + 1])

\* a Swift file with a force unwrap URL(string: ...)! or a try!
HasRiskyPattern(e) ==
    /\ IsSwiftText(e)
    /\ \/ \E i \in 1..(Len(e.text) - 1) : e.text[i] = "try" /\ e.text[i + 1] = "!"
       \/ \E i, j \in 1..Len(e.text) :
              /\ i + 3 < j /\ j < Len(e.text)
              /\ e.text[i] = "URL" /\ e.text[i + 1] = "(" /\ e.text[i + 2] = "string:"
              /\ \A k \in (i + 3)..(j - 1) : e.text[k] # ")"
              /\ e.text[j] = ")" /\ e.text[j + 1] = "!"

\* the result of a tree scan: passing without offenders, else failing with
\* the path of the first offender in its message
ScanResult(r, offenders) ==
    IF offenders = <<>> THEN r.passed
    ELSE ~r.passed /\ Contains(r.message, PathStr(offenders[1].path))

\* C7: each tree scan appends exactly one result, passing when no file under
\* the existing source roots offends, failing with the path of the first
\* offending file in its message when one or more do.
C7_TreeScans ==
    /\ mark.op = "audit_project_hygiene" =>
           /\ Len(Appended) = 4
           /\ ScanResult(Appended[1], SelectSeq(Walked, IsAppleDouble))
           /\ ScanResult(Appended[2], SelectSeq(Walked, IsDuplicateSwift))
           /\ ScanResult(Appended[3], SelectSeq(Walked, HasMarker))
    /\ mark.op = "audit_risky_patterns" =>
           /\ Len(Appended) = 1
           /\ ScanResult(Appended[1], SelectSeq(Walked, HasRiskyPattern))

(***************************************************************************)
(* C9                                                                      *)
(***************************************************************************)
\* the number of sub-checks in the fixed list of a group
SubChecks(g) ==
    CASE g = "audit_html_export" ->
             Len(required_css_classes) + Len(required_functions) + 1 + Len(brand_colors) + 1
      [] g = "audit_pdf_export" -> 1 + Len(special_blocks) + 1 + Len(pdf_colors)
      [] g = "audit_docx_export" -> 1 + Len(docx_styles) + 2
      [] g = "audit_guide_view" -> Len(block_views) + 3
      [] g = "audit_quality_service" -> Len(required_sections) + Len(quality_checks) + 1
      [] g = "audit_regenerate_view" -> 4
      [] g = "audit_navigation_styling" -> 4
      [] g = "audit_brand_consistency" -> Len(brand_elements) + Len(uicolor_extensions)
      [] g = "audit_project_hygiene" -> 4
      [] g = "audit_info_plist" -> 2
      [] g = "audit_risky_patterns" -> 1

RECURSIVE SumSubChecks(_)
SumSubChecks(gs) == IF gs = <<>> THEN 0 ELSE SubChecks(Head(gs)) + SumSubChecks(Tail(gs))

\* the file is missing, unreadable or empty
NoContent(path) ==
    \/ ~path_exists(fs, path)
    \/ \E i \in 1..Len(fs) : fs[i].path = path /\ (fs[i].state # "ok" \/ fs[i].text = <<>>)
    \/ Blocked(fs, path)

\* the guarded groups whose file has no content
ReturnsEarly(g) == g \in GuardedGroups /\ NoContent(TargetOf(g))

\* C9 as claimed: a group appends one result per sub-check of its list, so as
\* many for every file content, and a full run always counts the same total.
C9_Original ==
    /\ \A g \in Groups : mark.op = g => Len(Appended) = SubChecks(g)
    /\ (pc = "idle" /\ calls > 0) => Len(results) - RunResults0 = SumSubChecks(GroupOrder)

\* C9 (amended): a group appends one result per sub-check of its fixed list,
\* each under its own check name, except that audit_quality_service,
\* audit_regenerate_view and audit_info_plist append a single failing result
\* instead when their file is missing, unreadable or empty; a full run counts
\* the sub-checks of all groups less those skipped in this way.
C9_OnePerSubCheck ==
    /\ \A g \in Groups :
           mark.op = g =>
               /\ Len(Appended) = IF ReturnsEarly(g) THEN 1 ELSE SubChecks(g)
               /\ ReturnsEarly(g) => ~Appended[1].passed
               /\ \A i, j \in 1..Len(Appended) :
                      i # j => Appended[i].check # Appended[j].check
    /\ (pc = "idle" /\ calls > 0) =>
           Len(results) - RunResults0 =
               SumSubChecks(GroupOrder)
               - SumSubChecks(SelectSeq(GroupOrder, ReturnsEarly))
               + Len(SelectSeq(GroupOrder, ReturnsEarly))

\* audit_quality_service has run on a file without content
C9_Witness ==
    /\ mark.op = "audit_quality_service"
    /\ NoContent(quality_audit_path)
    /\ Len(Appended) = 1

(***************************************************************************)
(* C10                                                                     *)
(***************************************************************************)
\* the checks that fail when something unwanted is present
InverseChecks == {
    <<"No AppleDouble (._) files in source roots">>,
    <<"No duplicate Swift files with ' 2.swift' suffix">>,
    <<"No TODO/FIXME/HACK markers">>,
    <<"No force unwraps or try! in source">> }

\* C10: a failing result of an inverse check has severity "warning", every
\* other failing result severity "error".
C10_Severity ==
    \A i \in 1..Len(results) :
        ~results[i].passed =>
            results[i].severity =
                IF results[i].check \in InverseChecks THEN "warning" ELSE "error"

(***************************************************************************)
(* C11                                                                     *)
(***************************************************************************)
\* the categories of a result list, each once, in the order of first appearance
FirstSeen(rs) ==
    LET firsts == SelectSeq([i \in 1..Len(rs) |-> i],
                            LAMBDA i : \A j \in 1..(i - 1) : rs[j].category # rs[i].category)
    IN  [k \in 1..Len(firsts) |-> rs[firsts[k]].category]

\* the check and message lines printed under the category header at position p
SectionBody(out, p) ==
    LET stops == {q \in Positions(out, "category") \cup Positions(out, "summary") : q > p}
        stop == IF stops = {} THEN Len(out) + 1
                ELSE CHOOSE q \in stops : \A r \in stops : q <= r
    IN  SelectSeq(SubSeq(out, p + 1, stop - 1),
                  LAMBDA l : l.kind \in {"check", "message"})

\* C11: the report lists the categories in the order in which each first
\* appears in the result list, each once; under a category it lists the
\* results of that category in their order in the list, and prints a message
\* line under a result exactly when the result fails.
C11_CategoryOrder ==
    mark.op = "print_results" =>
        LET out == LastOutput
            heads == LinesOfKind(out, "category")
            at == SelectSeq([i \in 1..Len(out) |-> i], LAMBDA i : out[i].kind = "category")
        IN  /\ [k \in 1..Len(heads) |-> heads[k].text] = FirstSeen(results)
            /\ \A k \in 1..Len(at) :
                   LET body == SectionBody(out, at[k])
                       rs == SelectSeq(results, LAMBDA r : r.category = out[at[k]].text)
                       nth(q) == Len(LinesOfKind(SubSeq(body, 1, q), "check"))
                   IN  /\ Len(LinesOfKind(body, "check")) = Len(rs)
                       /\ Len(body) > 0 => body[1].kind = "check"
                       /\ \A q \in 1..Len(body) :
                              LET r == rs[nth(q)]
                              IN  IF body[q].kind = "check"
                                  THEN /\ body[q].check = r.check
                                       /\ body[q].text = (IF r.passed THEN "pass" ELSE "fail")
                                       /\ ~r.passed <=>
                                              (q < Len(body) /\ body[q + 1].kind = "message")
                                  ELSE /\ body[q - 1].kind = "check"
                                       /\ ~r.passed
                                       /\ body[q].message = r.message

\* a report of results whose categories interleave, the second-listed
\* category of the model being the first to appear
C11_Witness ==
    /\ mark.op = "print_results"
    /\ Len(results) = 4
    /\ results[1].category = "Risky Patterns" /\ ~results[1].passed
    /\ results[2].category = "HTML Export" /\ results[2].passed
    /\ results[3].category = "Risky Patterns" /\ results[3].passed
    /\ results[4].category = "HTML Export" /\ ~results[4].passed

(***************************************************************************)
(* C12                                                                     *)
(***************************************************************************)
\* a is an initial part of b
IsPrefix(a, b) == Len(a) <= Len(b) /\ SubSeq(b, 1, Len(a)) = a

\* one operation on the auditor, as the result list sees it
C12_Step ==
    LET op == log'[Len(log')].op
    IN  /\ IsPrefix(results, results')
        /\ op = "add_result" => Len(results') = Len(results) + 1
        /\ op = "print_results" => results' = results
        /\ op \in Groups =>
               \A i \in (Len(results) + 1)..Len(results') :
                   DOMAIN results'[i] = {"category", "check", "passed", "message", "severity"}
        /\ fs' = fs

\* C12: the result list is append-only.  add_result adds exactly one record
\* at the end; an audit group, whatever its reads of the file system return,
\* only adds records at the end; print_results leaves the list as it is; no
\* operation changes or removes a record already in the list, so every
\* earlier list is an initial part of every later one.
C12_AppendOnly == [][C12_Step]_vars

\* add_result has added one record to the records a group left, and the
\* records of the group are still there
C12_Witness ==
    /\ Len(log) = 3
    /\ log[2].op = "audit_regenerate_view"
    /\ mark.op = "add_result"
    /\ mark.res0 > 0
    /\ Len(results) = mark.res0 + 1
    /\ \A i \in 1..mark.res0 : results[i].category = "Regenerate View"

====
